---- MODULE Spec2Model ----
(***************************************************************************)
(* Sacred Geometry search engine (sg.go): the left-to-right expression     *)
(* evaluator evalExpression and the brute-force driver                     *)
(* findCombinationToPrime with its generators permutations and             *)
(* combinations.                                                           *)
(*                                                                         *)
(* Text is modelled as a sequence of one-character strings, so that the    *)
(* rendering built by fmt.Sprintf can be taken apart and re-parsed.        *)
(* Go slices are 0-based, TLA+ sequences 1-based: Go's nums[i] is nums[i+1]*)
(* here, Go's ops[i-1] is ops[i].  The loop counters keep Go's values.     *)
(***************************************************************************)
EXTENDS Integers, Sequences, FiniteSets

VARIABLES
    nums,   \* evalExpression: the operand slice of the call being stepped
    ops,    \* evalExpression: the operator slice of the call being stepped
    ev,     \* evalExpression: locals i, result, expression and the position pc
    dice,   \* findCombinationToPrime: the dice slice
    prime,  \* findCombinationToPrime: the target
    fs,     \* findCombinationToPrime: locals and position of the running search
    pin,    \* permutations: the contents of nums when the call was made
    parr,   \* permutations: the backing array of nums, shared by every helper call
    ppos,   \* permutations: the input position of the value in each cell of parr
    pres,   \* permutations: res, a list of references to arrays
    pord,   \* permutations: ppos as it was at each append to res
    pstk,   \* permutations: the stack of helper calls, innermost last
    ppc,    \* permutations: position of the call ("idle", "run", "done")
    cn,     \* combinations: the argument n
    celems, \* combinations: the argument elements
    cres,   \* combinations: the list returned
    cpc,    \* combinations: position of the call ("idle", "done")
    variant,  \* dispatcher: which of the two dispatch loops of the source runs
    primes,   \* dispatcher: the target primes of the spell
    units,    \* dispatcher: the goroutines go func(p int), one per prime
    chan,     \* dispatcher: the results buffered in the channel, oldest first
    closed,   \* dispatcher: the channel has been closed
    wg,       \* dispatcher: the WaitGroup counter
    main,     \* dispatcher: the position and the locals of the dispatching loop
    closer,   \* dispatcher: the goroutine that waits and closes (second loop)
    spell,       \* main: the spell of the pass of the loop over the spells
    spellCopy,   \* main: spellCopy, the copy that the effects modify
    spellLevel,  \* main: spellLevel, the level after the metamagic feats
    levelPrimes, \* main: the primes returned by getPrimeConstants(spellLevel)
    mpc          \* main: position in the pass over one spell

evalVars == <<nums, ops, ev>>
findVars == <<dice, prime, fs>>
permVars == <<pin, parr, ppos, pres, pord, pstk, ppc>>
combVars == <<cn, celems, cres, cpc>>
dispVars == <<variant, primes, units, chan, closed, wg, main, closer>>

spellVars == <<spell, spellCopy, spellLevel, levelPrimes, mpc>>

vars == <<evalVars, findVars, permVars, combVars, dispVars, spellVars>>

----------------------------------------------------------------------------
(* Bounds and input sets *)

\* Longest operand slice handed to a stepped evalExpression call.
MaxOperands == 3

\* Largest number of dice of a search.
MaxDice == 3

\* Operand values of the stepped evaluator calls: zero, a negative value,
\* one-digit values and a two-digit value.
OperandValues == {-3, 0, 1, 2, 3, 4, 5, 10}

\* Die values of the searches (0 is included for the zero-divisor cases).
DieValues == {0, 1, 2, 3}

\* Targets of the searches: 0, a die value and a prime of the first row of
\* primeConstants, and a prime no expression over the dice reaches.
Targets == {0, 3, 7, 89}

----------------------------------------------------------------------------
(* Helpers *)

Abs(x) == IF x < 0 THEN -x ELSE x

RECURSIVE Pow(_, _)
Pow(b, e) == IF e = 0 THEN 1 ELSE b * Pow(b, e - 1)

\* All sequences over S of length 0..n.
SeqsUpTo(S, n) == UNION {[1..k -> S] : k \in 0..n}

----------------------------------------------------------------------------
(* fmt.Sprintf("%d", n): the decimal text of an int *)

DigitChar(d) ==
    CASE d = 0 -> "0" [] d = 1 -> "1" [] d = 2 -> "2" [] d = 3 -> "3"
      [] d = 4 -> "4" [] d = 5 -> "5" [] d = 6 -> "6" [] d = 7 -> "7"
      [] d = 8 -> "8" [] d = 9 -> "9"

RECURSIVE UDecimal(_)
UDecimal(n) ==
    IF n < 10 THEN <<DigitChar(n)>>
    ELSE UDecimal(n \div 10) \o <<DigitChar(n % 10)>>

Itoa(n) == IF n < 0 THEN <<"-">> \o UDecimal(-n) ELSE UDecimal(n)

----------------------------------------------------------------------------
(* evalExpression *)

\* operations := []string{"+", "-", "*", "/"}
Operations == <<"+", "-", "*", "/">>

OpSet == {Operations[k] : k \in 1..Len(Operations)}

\* Go's integer division: the quotient truncated toward zero.
GoDiv(a, b) ==
    LET q == Abs(a) \div Abs(b)
    IN  IF (a < 0) # (b < 0) THEN -q ELSE q

\* Variant of WrapFormat: parentheses only after a previous "+".
WrapFormatPlusOnly(expression, previousOp, nextOp, nextNum) ==
    IF previousOp = "+" /\ (nextOp = "*" \/ nextOp = "/")
    THEN <<"(">> \o expression \o <<")", " ", nextOp, " ">> \o Itoa(nextNum)
    ELSE expression \o <<" ", nextOp, " ">> \o Itoa(nextNum)

\* Variant of WrapFormat: never any parentheses.
WrapFormatNever(expression, previousOp, nextOp, nextNum) ==
    expression \o <<" ", nextOp, " ">> \o Itoa(nextNum)

\* The two Sprintf calls that extend the expression text.
WrapFormat(expression, previousOp, nextOp, nextNum) ==
    IF (previousOp = "+" \/ previousOp = "-") /\ (nextOp = "*" \/ nextOp = "/")
    THEN <<"(">> \o expression \o <<")", " ", nextOp, " ">> \o Itoa(nextNum)
    ELSE expression \o <<" ", nextOp, " ">> \o Itoa(nextNum)

\* Variant of ApplyOp: "/" rounds toward minus infinity.
ApplyOpFloor(result, nextOp, nextNum) ==
    CASE nextOp = "+" -> [ret |-> FALSE, result |-> result + nextNum]
      [] nextOp = "-" -> [ret |-> FALSE, result |-> result - nextNum]
      [] nextOp = "*" -> [ret |-> FALSE, result |-> result * nextNum]
      [] nextOp = "/" ->
            IF nextNum # 0
            THEN [ret |-> FALSE, result |-> result \div nextNum]
            ELSE [ret |-> TRUE, result |-> 0]
      [] OTHER -> [ret |-> FALSE, result |-> result]

\* Variant of ApplyOp: "-" subtracts the accumulator from the operand.
ApplyOpSwapped(result, nextOp, nextNum) ==
    CASE nextOp = "+" -> [ret |-> FALSE, result |-> result + nextNum]
      [] nextOp = "-" -> [ret |-> FALSE, result |-> nextNum - result]
      [] nextOp = "*" -> [ret |-> FALSE, result |-> result * nextNum]
      [] nextOp = "/" ->
            IF nextNum # 0
            THEN [ret |-> FALSE, result |-> GoDiv(result, nextNum)]
            ELSE [ret |-> TRUE, result |-> 0]
      [] OTHER -> [ret |-> FALSE, result |-> result]

\* Variant of ApplyOp: a zero divisor is skipped and evaluation goes on.
ApplyOpSkipZero(result, nextOp, nextNum) ==
    CASE nextOp = "+" -> [ret |-> FALSE, result |-> result + nextNum]
      [] nextOp = "-" -> [ret |-> FALSE, result |-> result - nextNum]
      [] nextOp = "*" -> [ret |-> FALSE, result |-> result * nextNum]
      [] nextOp = "/" ->
            IF nextNum # 0
            THEN [ret |-> FALSE, result |-> GoDiv(result, nextNum)]
            ELSE [ret |-> FALSE, result |-> result]
      [] OTHER -> [ret |-> FALSE, result |-> result]

\* The switch on nextOp: the new accumulator, or the early return on a zero
\* divisor.  An operator outside the four leaves the accumulator alone.
ApplyOp(result, nextOp, nextNum) ==
    CASE nextOp = "+" -> [ret |-> FALSE, result |-> result + nextNum]
      [] nextOp = "-" -> [ret |-> FALSE, result |-> result - nextNum]
      [] nextOp = "*" -> [ret |-> FALSE, result |-> result * nextNum]
      [] nextOp = "/" ->
            IF nextNum # 0
            THEN [ret |-> FALSE, result |-> GoDiv(result, nextNum)]
            ELSE [ret |-> TRUE, result |-> 0]
      [] OTHER -> [ret |-> FALSE, result |-> result]

\* Variant of EvalEnter: the accumulator starts at 0.
EvalEnterZeroAcc(ns) ==
    IF Len(ns) = 0
    THEN [pc |-> "return", i |-> 0, result |-> 0, expression |-> <<>>]
    ELSE [pc |-> "loop", i |-> 1, result |-> 0, expression |-> Itoa(ns[1])]

\* Variant of EvalEnter: the empty slice is rendered like the value 0.
EvalEnterEmptyAsZero(ns) ==
    IF Len(ns) = 0
    THEN [pc |-> "return", i |-> 0, result |-> 0, expression |-> Itoa(0)]
    ELSE [pc |-> "loop", i |-> 1, result |-> ns[1], expression |-> Itoa(ns[1])]

\* Entry of evalExpression: the empty-slice return, or the locals before the
\* loop (i := 1).
EvalEnter(ns) ==
    IF Len(ns) = 0
    THEN [pc |-> "return", i |-> 0, result |-> 0, expression |-> <<>>]
    ELSE [pc |-> "loop", i |-> 1, result |-> ns[1], expression |-> Itoa(ns[1])]

\* One pass of the for loop, its condition included.  Reading ops[i-1] past
\* the end of ops is Go's index-out-of-range panic.
EvalIter(st, ns, os) ==
    IF ~(st.i < Len(ns))
    THEN [st EXCEPT !.pc = "return"]
    ELSE IF ~(st.i - 1 < Len(os))
    THEN [st EXCEPT !.pc = "panic"]
    ELSE
        LET nextNum    == ns[st.i + 1]
            nextOp     == os[st.i]
            previousOp == IF st.i > 1 THEN os[st.i - 1] ELSE "+"
            expression == WrapFormat(st.expression, previousOp, nextOp, nextNum)
            applied    == ApplyOp(st.result, nextOp, nextNum)
        IN  IF applied.ret
            THEN [pc |-> "return", i |-> st.i, result |-> 0, expression |-> <<>>]
            ELSE [pc |-> "loop", i |-> st.i + 1, result |-> applied.result,
                  expression |-> expression]

RECURSIVE EvalRun(_, _, _)
EvalRun(st, ns, os) ==
    IF st.pc # "loop" THEN st ELSE EvalRun(EvalIter(st, ns, os), ns, os)

\* The whole call: (result, expression), or the panic.
evalExpression(ns, os) == EvalRun(EvalEnter(ns), ns, os)

----------------------------------------------------------------------------
(* permutations and combinations *)

SwapAt(arr, a, b) == [arr EXCEPT ![a] = arr[b], ![b] = arr[a]]

\* helper(arr, n): arr is shared and swapped in place, and a copy of it is
\* appended to res when n = 1.  The call is modelled by the pair (arr after
\* the call, the copies it appended to res, in order).
RECURSIVE Helper(_, _)
RECURSIVE HelperLoop(_, _, _)
Helper(arr, n) ==
    IF n = 1
    THEN [out |-> <<arr>>, arr |-> arr]
    ELSE HelperLoop(arr, n, 0)

\* The for loop of helper from counter i on.
HelperLoop(arr, n, i) ==
    IF ~(i < n)
    THEN [out |-> <<>>, arr |-> arr]
    ELSE
        LET r    == Helper(arr, n - 1)
            sw   == IF n % 2 = 1
                    THEN SwapAt(r.arr, 1, n)
                    ELSE SwapAt(r.arr, i + 1, n)
            rest == HelperLoop(sw, n, i + 1)
        IN  [out |-> r.out \o rest.out, arr |-> rest.arr]

\* Variant of permutations: the ordering appended last is missing.
PermutationsAllButLast(ns) ==
    LET out == Helper(ns, Len(ns)).out
    IN  SubSeq(out, 1, Len(out) - 1)

\* Variant of permutations: only the ordering given is produced.
PermutationsIdentityOnly(ns) == IF Len(ns) = 0 THEN <<>> ELSE <<ns>>

\* permutations(nums): res after helper(nums, len(nums)), res empty before.
permutations(ns) == Helper(ns, Len(ns)).out

RECURSIVE CombinationsLoop(_, _, _)
RECURSIVE combinations(_, _)
\* Variant of AppendEach: the element is put after the shorter sequence.
AppendEachAtEnd(e, cs) == [k \in 1..Len(cs) |-> cs[k] \o <<e>>]

\* The inner loop over cs: the entries append([]string{e}, c...) it appends
\* to result, in the order of cs.
AppendEach(e, cs) == [k \in 1..Len(cs) |-> <<e>> \o cs[k]]

\* The outer loop from the k-th element on: the entries it appends to result.
CombinationsLoop(n, elements, k) ==
    IF k > Len(elements) THEN <<>>
    ELSE AppendEach(elements[k], combinations(n - 1, elements))
             \o CombinationsLoop(n, elements, k + 1)

\* Variant of combinations: n = 0 gives the empty list.
CombinationsNilAtZero(n, elements) ==
    IF n = 0 THEN <<>>
    ELSE CombinationsLoop(n, elements, 1)

\* combinations(n, elements), for n >= 0.
combinations(n, elements) ==
    IF n = 0 THEN << <<>> >>
    ELSE CombinationsLoop(n, elements, 1)

----------------------------------------------------------------------------
(* permutations, call by call: the array of nums is one memory cell block  *)
(* that every helper call swaps in place, and res holds references.        *)

\* The cell swapped with arr[n-1] after the i-th recursive call: arr[0] when
\* n is odd, arr[i] when n is even (as a 1-based index).
SwapIndex(n, i) == IF n % 2 = 1 THEN 1 ELSE i + 1

\* Variant of Emit: the slice arr itself is appended to res.
EmitAlias(arr) == [ref |-> "arr", val |-> <<>>]

\* tmp := make([]int, len(arr)); copy(tmp, arr): the entry appended to res
\* is a reference to a new array holding the contents arr has now.
Emit(arr) == [ref |-> "tmp", val |-> arr]

\* The contents read through an entry of res while the shared array holds arr.
EntryVal(e, arr) == IF e.ref = "arr" THEN arr ELSE e.val

\* A helper call about to test n == 1 or the loop condition.
Frame(n) == [n |-> n, i |-> 0, at |-> "test"]

----------------------------------------------------------------------------

(* findCombinationToPrime *)

\* Variant of BitSet: the bit above the one of die j is tested.
BitSetNextBit(i, j) == (i \div Pow(2, j + 1)) % 2 = 1

\* i & (1 << j) != 0
BitSet(i, j) == (i \div Pow(2, j)) % 2 = 1

\* The inner loop over j: subset = append(subset, dice[j]) for each set bit.
RECURSIVE SubsetFrom(_, _, _, _)
SubsetFrom(ds, i, j, subset) ==
    IF ~(j < Len(ds)) THEN subset
    ELSE SubsetFrom(ds, i, j + 1,
             IF BitSet(i, j) THEN Append(subset, ds[j + 1]) ELSE subset)

SubsetOf(ds, i) == SubsetFrom(ds, i, 0, <<>>)

\* The die indices j (1-based) for which the inner loop appends, in the
\* order of the appends.
RECURSIVE PickedFrom(_, _, _, _)
PickedFrom(n, i, j, picked) ==
    IF ~(j < n) THEN picked
    ELSE PickedFrom(n, i, j + 1,
             IF BitSet(i, j) THEN Append(picked, j + 1) ELSE picked)

PickedOf(n, i) == PickedFrom(n, i, 0, <<>>)

\* Variant of SubsetArray: subset is built in the array of dice.
SubsetArrayOfDice(ds, i) == "dice"

\* The array behind subset: var subset []int is nil, so the first append
\* allocates an array of its own, and the later appends stay in it or move
\* to another new one.
SubsetArray(ds, i) == "new"

\* The contents of the dice array after the array `array` got the contents
\* arr: its first cells are overwritten when `array` is the dice array.
WriteThrough(ds, array, arr) ==
    IF array = "dice"
    THEN [j \in 1..Len(ds) |-> IF j <= Len(arr) THEN arr[j] ELSE ds[j]]
    ELSE ds

\* nums after permutations(nums) has returned.
ArrayAfterPermutations(ns) == Helper(ns, Len(ns)).arr

\* Variant of IsMatch: any result that reaches the target counts.
IsMatchAtLeast(r, p) == r.result >= p

\* if result == prime
IsMatch(r, p) == r.result = p

\* The locals of a search that has not started.
FindIdle ==
    [pc |-> "idle", i |-> 0, subset |-> <<>>, subsetAfter |-> <<>>,
     picked |-> <<>>, built |-> <<>>,
     perm |-> <<>>, pIdx |-> 0, opsComb |-> <<>>,
     oIdx |-> 0, expr |-> <<>>, found |-> FALSE, nEval |-> 0]

\* Entry: i := 1.
FindEnter == [FindIdle EXCEPT !.pc = "subsets", !.i = 1]

\* for i := 1; i < (1 << n); i++: build the subset and its permutations, or
\* leave the loop and return ("", false).
\* subset is the local as the inner loop has built it, subsetAfter its array
\* as permutations leaves it; picked and built record the die indices j of
\* the appends, of this pass and of every pass so far.
FindSubsetStep(f, ds) ==
    IF f.i < Pow(2, Len(ds))
    THEN [f EXCEPT !.pc = "perms", !.perm = permutations(SubsetOf(ds, f.i)),
                   !.pIdx = 0,
                   !.subset = SubsetOf(ds, f.i),
                   !.subsetAfter = ArrayAfterPermutations(SubsetOf(ds, f.i)),
                   !.picked = PickedOf(Len(ds), f.i),
                   !.built = Append(f.built, PickedOf(Len(ds), f.i))]
    ELSE [f EXCEPT !.pc = "done", !.expr = <<>>, !.found = FALSE]

\* The dice array after that pass: permutations swaps the cells of the
\* array of subset, which are cells of dice only if the two share an array.
DiceAfterSubsetStep(f, ds) ==
    IF f.i < Pow(2, Len(ds))
    THEN WriteThrough(ds, SubsetArray(ds, f.i),
                      ArrayAfterPermutations(SubsetOf(ds, f.i)))
    ELSE ds

\* Variant of FindPermStep: as many operators as operands are asked for.
FindPermStepOneMore(f) ==
    IF f.pIdx < Len(f.perm)
    THEN [f EXCEPT !.pc = "ops",
                   !.opsComb = combinations(Len(f.perm[f.pIdx + 1]), Operations),
                   !.oIdx = 0]
    ELSE [f EXCEPT !.pc = "subsets", !.i = f.i + 1]

\* for _, p := range perm: build the operator sequences for p, or go on with
\* the next subset.
FindPermStep(f) ==
    IF f.pIdx < Len(f.perm)
    THEN [f EXCEPT !.pc = "ops",
                   !.opsComb = combinations(Len(f.perm[f.pIdx + 1]) - 1, Operations),
                   !.oIdx = 0]
    ELSE [f EXCEPT !.pc = "subsets", !.i = f.i + 1]

\* Variant of FindEvalStep: a match is recorded but the remaining operator
\* sequences of the permutation are still evaluated before returning.
FindEvalStepNoShortCircuit(f, p) ==
    IF f.oIdx < Len(f.opsComb)
    THEN LET r == evalExpression(f.perm[f.pIdx + 1], f.opsComb[f.oIdx + 1])
         IN  IF r.result = p /\ ~f.found
             THEN [f EXCEPT !.expr = r.expression, !.found = TRUE,
                            !.oIdx = f.oIdx + 1, !.nEval = f.nEval + 1]
             ELSE [f EXCEPT !.oIdx = f.oIdx + 1, !.nEval = f.nEval + 1]
    ELSE IF f.found THEN [f EXCEPT !.pc = "done"]
    ELSE [f EXCEPT !.pc = "perms", !.pIdx = f.pIdx + 1]

\* Variant of FindEvalStep: the empty expression of a failed evaluation ends
\* the search with ("", false).
FindEvalStepAbortOnEmpty(f, p) ==
    IF f.oIdx < Len(f.opsComb)
    THEN LET r == evalExpression(f.perm[f.pIdx + 1], f.opsComb[f.oIdx + 1])
         IN  IF r.expression = <<>>
             THEN [f EXCEPT !.pc = "done", !.expr = <<>>, !.found = FALSE,
                            !.nEval = f.nEval + 1]
             ELSE IF r.result = p
             THEN [f EXCEPT !.pc = "done", !.expr = r.expression,
                            !.found = TRUE, !.nEval = f.nEval + 1]
             ELSE [f EXCEPT !.oIdx = f.oIdx + 1, !.nEval = f.nEval + 1]
    ELSE [f EXCEPT !.pc = "perms", !.pIdx = f.pIdx + 1]

\* for _, ops := range opsComb: evaluate one candidate and return on a match,
\* or go on with the next permutation.
FindEvalStep(f, p) ==
    IF f.oIdx < Len(f.opsComb)
    THEN LET r == evalExpression(f.perm[f.pIdx + 1], f.opsComb[f.oIdx + 1])
         IN  IF IsMatch(r, p)
             THEN [f EXCEPT !.pc = "done", !.expr = r.expression,
                            !.found = TRUE, !.nEval = f.nEval + 1]
             ELSE [f EXCEPT !.oIdx = f.oIdx + 1, !.nEval = f.nEval + 1]
    ELSE [f EXCEPT !.pc = "perms", !.pIdx = f.pIdx + 1]

----------------------------------------------------------------------------
(* State machine of one evalExpression call, stepped pass by pass *)

EvalIdle == [pc |-> "call", i |-> 0, result |-> 0, expression |-> <<>>]

\* No evalExpression call is stepped.
EvalAtRest ==
    /\ nums = <<>>
    /\ ops = <<>>
    /\ ev = EvalIdle

\* No search is stepped.
FindAtRest ==
    /\ dice = <<>>
    /\ prime = 0
    /\ fs = FindIdle

\* No combinations call is made.
CombAtRest ==
    /\ cn = 0
    /\ celems = <<>>
    /\ cres = <<>>
    /\ cpc = "idle"

\* The locals of the dispatching loop before it starts: its position, the
\* number of goroutines started, success and expressions; received records
\* the results the range has taken from the channel, in order.
MainIdle ==
    [pc |-> "spawn", k |-> 0, success |-> TRUE, expressions |-> <<>>,
     received |-> <<>>]

\* No dispatch runs.
DispatchAtRest ==
    /\ variant = "none"
    /\ primes = <<>>
    /\ units = <<>>
    /\ chan = <<>>
    /\ closed = FALSE
    /\ wg = 0
    /\ main = MainIdle
    /\ closer = "none"

\* The zero value of Spell.
NoSpell ==
    [Name |-> "", BaseLevel |-> 0, School |-> "", Range |-> "",
     DamageRoll |-> [NumDice |-> 0, DiceType |-> 0, Modifier |-> 0,
                     PerLevel |-> FALSE, MaxDice |-> 0, Projectiles |-> 0],
     Duration |-> [Value |-> 0, Unit |-> "", IsLevel |-> FALSE],
     MetamagicFeats |-> <<>>]

\* No spell is processed.
SpellAtRest ==
    /\ spell = NoSpell
    /\ spellCopy = NoSpell
    /\ spellLevel = 0
    /\ levelPrimes = <<>>
    /\ mpc = "idle"

\* No permutations call is made.
PermAtRest ==
    /\ pin = <<>>
    /\ parr = <<>>
    /\ ppos = <<>>
    /\ pres = <<>>
    /\ pord = <<>>
    /\ pstk = <<>>
    /\ ppc = "idle"

EvalInit ==
    /\ nums \in SeqsUpTo(OperandValues, MaxOperands)
    /\ ops \in SeqsUpTo(OpSet, MaxOperands - 1)
    /\ ev = EvalIdle
    /\ dice = <<>>
    /\ prime = 0
    /\ fs = FindIdle
    /\ PermAtRest
    /\ CombAtRest
    /\ DispatchAtRest
    /\ SpellAtRest

EvalCall ==
    /\ ev.pc = "call"
    /\ ev' = EvalEnter(nums)
    /\ UNCHANGED <<nums, ops, findVars, permVars, combVars, dispVars, spellVars>>

EvalPass ==
    /\ ev.pc = "loop"
    /\ ev' = EvalIter(ev, nums, ops)
    /\ UNCHANGED <<nums, ops, findVars, permVars, combVars, dispVars, spellVars>>

EvalNext == EvalCall \/ EvalPass

EvalSpec == EvalInit /\ [][EvalNext]_vars

----------------------------------------------------------------------------
(* State machine of one findCombinationToPrime call *)

Init ==
    /\ dice \in SeqsUpTo(DieValues, MaxDice)
    /\ prime \in Targets
    /\ fs = FindIdle
    /\ nums = <<>>
    /\ ops = <<>>
    /\ ev = EvalIdle
    /\ PermAtRest
    /\ CombAtRest
    /\ DispatchAtRest
    /\ SpellAtRest

FindCall ==
    /\ fs.pc = "idle"
    /\ fs' = FindEnter
    /\ UNCHANGED <<dice, prime, evalVars, permVars, combVars, dispVars, spellVars>>

FindSubset ==
    /\ fs.pc = "subsets"
    /\ fs' = FindSubsetStep(fs, dice)
    /\ dice' = DiceAfterSubsetStep(fs, dice)
    /\ UNCHANGED <<prime, evalVars, permVars, combVars, dispVars, spellVars>>

FindPerm ==
    /\ fs.pc = "perms"
    /\ fs' = FindPermStep(fs)
    /\ UNCHANGED <<dice, prime, evalVars, permVars, combVars, dispVars, spellVars>>

FindEval ==
    /\ fs.pc = "ops"
    /\ fs' = FindEvalStep(fs, prime)
    /\ UNCHANGED <<dice, prime, evalVars, permVars, combVars, dispVars, spellVars>>

Next == FindCall \/ FindSubset \/ FindPerm \/ FindEval

Spec == Init /\ [][Next]_vars

----------------------------------------------------------------------------
(* The two calls on degenerate inputs: an evalExpression call with at most *)
(* one operand and any operators, and a search over at most one die, each  *)
(* stepped on its own variables.                                           *)

\* Largest number of operands, and of dice, of the degenerate calls, and the
\* values they are drawn from.
MaxDegenerate == 1

DegenerateOperands == {0, 5}

DegenerateDice == {0, 3}

DegenerateInit ==
    /\ nums \in SeqsUpTo(DegenerateOperands, MaxDegenerate)
    /\ ops \in SeqsUpTo(OpSet, MaxOperands - 1)
    /\ ev = EvalIdle
    /\ dice \in SeqsUpTo(DegenerateDice, MaxDegenerate)
    /\ prime \in Targets
    /\ fs = FindIdle
    /\ PermAtRest
    /\ CombAtRest
    /\ DispatchAtRest
    /\ SpellAtRest

DegenerateNext == EvalNext \/ Next

DegenerateSpec == DegenerateInit /\ [][DegenerateNext]_vars

----------------------------------------------------------------------------

(* State machine of one permutations call, stepped helper call by helper   *)
(* call                                                                    *)

\* Longest input of pairwise different values, longest input with repeated
\* values, and the values of the latter.
MaxPermLen == 5

MaxRepeatLen == 4

PermValues == {1, 2, 3}

PermInputs ==
    {[j \in 1..m |-> j] : m \in 0..MaxPermLen}
        \cup SeqsUpTo(PermValues, MaxRepeatLen)

PermInit ==
    /\ pin \in PermInputs
    /\ parr = pin
    /\ ppos = [j \in 1..Len(pin) |-> j]
    /\ pres = <<>>
    /\ pord = <<>>
    /\ pstk = <<>>
    /\ ppc = "idle"
    /\ EvalAtRest
    /\ FindAtRest
    /\ CombAtRest
    /\ DispatchAtRest
    /\ SpellAtRest

PermTop == pstk[Len(pstk)]

PermPop == SubSeq(pstk, 1, Len(pstk) - 1)

\* res := [][]int{}; helper(nums, len(nums))
PermCall ==
    /\ ppc = "idle"
    /\ ppc' = "run"
    /\ pres' = <<>>
    /\ pstk' = <<Frame(Len(parr))>>
    /\ UNCHANGED <<pin, parr, ppos, pord, evalVars, findVars, combVars, dispVars, spellVars>>

\* n == 1: append the copy and return to the calling helper.
PermEmit ==
    /\ ppc = "run" /\ pstk # <<>>
    /\ PermTop.at = "test" /\ PermTop.n = 1
    /\ pres' = Append(pres, Emit(parr))
    /\ pord' = Append(pord, ppos)
    /\ pstk' = PermPop
    /\ UNCHANGED <<pin, parr, ppos, ppc, evalVars, findVars, combVars, dispVars, spellVars>>

\* i < n: call helper(arr, n-1); the swap follows its return.
PermDescend ==
    /\ ppc = "run" /\ pstk # <<>>
    /\ PermTop.at = "test" /\ PermTop.n # 1 /\ PermTop.i < PermTop.n
    /\ pstk' = Append([pstk EXCEPT ![Len(pstk)].at = "swap"],
                      Frame(PermTop.n - 1))
    /\ UNCHANGED <<pin, parr, ppos, pres, pord, ppc, evalVars, findVars, combVars, dispVars, spellVars>>

\* The swap of the loop body, and i++.
PermSwap ==
    /\ ppc = "run" /\ pstk # <<>>
    /\ PermTop.at = "swap"
    /\ LET a == SwapIndex(PermTop.n, PermTop.i)
       IN  /\ parr' = SwapAt(parr, a, PermTop.n)
           /\ ppos' = SwapAt(ppos, a, PermTop.n)
    /\ pstk' = [pstk EXCEPT ![Len(pstk)].at = "test",
                            ![Len(pstk)].i = PermTop.i + 1]
    /\ UNCHANGED <<pin, pres, pord, ppc, evalVars, findVars, combVars, dispVars, spellVars>>

\* The loop is over (or n = 0): return to the calling helper.
PermLeave ==
    /\ ppc = "run" /\ pstk # <<>>
    /\ PermTop.at = "test" /\ PermTop.n # 1 /\ ~(PermTop.i < PermTop.n)
    /\ pstk' = PermPop
    /\ UNCHANGED <<pin, parr, ppos, pres, pord, ppc, evalVars, findVars, combVars, dispVars, spellVars>>

\* return res
PermReturn ==
    /\ ppc = "run" /\ pstk = <<>>
    /\ ppc' = "done"
    /\ UNCHANGED <<pin, parr, ppos, pres, pord, pstk, evalVars, findVars, combVars, dispVars, spellVars>>

PermNext ==
    PermCall \/ PermEmit \/ PermDescend \/ PermSwap \/ PermLeave \/ PermReturn

PermSpec == PermInit /\ [][PermNext]_vars

----------------------------------------------------------------------------

(* State machine of permutations calls taken whole *)

\* Longest argument of pairwise different values of a whole call.
MaxPermArg == 7

PermArgs ==
    {[j \in 1..m |-> j] : m \in 0..MaxPermArg}
        \cup SeqsUpTo(PermValues, MaxRepeatLen)

PermFnInit ==
    /\ pin \in PermArgs
    /\ parr = pin
    /\ ppos = [j \in 1..Len(pin) |-> j]
    /\ pres = <<>>
    /\ pord = <<>>
    /\ pstk = <<>>
    /\ ppc = "idle"
    /\ EvalAtRest
    /\ FindAtRest
    /\ CombAtRest
    /\ DispatchAtRest
    /\ SpellAtRest

\* The entries of res for the arrays of out, in order.
EmitEach(out) == [k \in 1..Len(out) |-> Emit(out[k])]

\* perm := permutations(nums): the list returned, and nums as the call
\* leaves it.
PermWhole ==
    /\ ppc = "idle"
    /\ ppc' = "done"
    /\ pres' = EmitEach(permutations(parr))
    /\ parr' = Helper(parr, Len(parr)).arr
    /\ UNCHANGED <<pin, ppos, pord, pstk, evalVars, findVars, combVars, dispVars, spellVars>>

PermFnNext == PermWhole

PermFnSpec == PermFnInit /\ [][PermFnNext]_vars

----------------------------------------------------------------------------
(* State machine of combinations calls taken whole *)

\* Largest n of a call.
MaxCombLen == 3

\* The element lists of the calls: the lists of pairwise different operators
\* (the driver passes the four operators, the tests shorter lists).
CombElements ==
    {s \in SeqsUpTo(OpSet, Len(Operations)) :
        \A a, b \in 1..Len(s) : a # b => s[a] # s[b]}

CombInit ==
    /\ cn \in 0..MaxCombLen
    /\ celems \in CombElements
    /\ cres = <<>>
    /\ cpc = "idle"
    /\ EvalAtRest
    /\ FindAtRest
    /\ PermAtRest
    /\ DispatchAtRest
    /\ SpellAtRest

\* opsComb := combinations(n, elements)
CombWhole ==
    /\ cpc = "idle"
    /\ cpc' = "done"
    /\ cres' = combinations(cn, celems)
    /\ UNCHANGED <<cn, celems, evalVars, findVars, permVars, dispVars, spellVars>>

CombNext == CombWhole

CombSpec == CombInit /\ [][CombNext]_vars

----------------------------------------------------------------------------
(* The dispatcher: one goroutine per prime over the shared dice, a buffered *)
(* channel of results and a WaitGroup.  Two dispatch loops are in the       *)
(* source: "joinThenDrain" waits for the WaitGroup, closes the channel and  *)
(* then ranges over it, leaving the range at the first result not found;    *)
(* "drainWhileJoining" starts a goroutine that waits and closes, and ranges *)
(* over the channel meanwhile, reading every result.                        *)

\* var primeConstants
primeConstants ==
    << <<3, 5, 7>>, <<11, 13, 17>>, <<19, 23, 29>>, <<31, 37, 41>>,
       <<43, 47, 53>>, <<59, 61, 67>>, <<71, 73, 79>>, <<83, 89, 97>>,
       <<101, 103, 107>> >>

\* Variant of getPrimeConstants: the index is the level, one row further.
GetPrimeConstantsNextRow(level) ==
    primeConstants[IF level < Len(primeConstants) THEN level + 1 ELSE level]

\* primeConstants[level-1]
getPrimeConstants(level) == primeConstants[level]

\* The spell levels and the rolls (d6 values) of the dispatches: rolls for
\* which all, some and none of the primes of the level are reached.
DispatchLevels == {1, 2}

Rolls == {<<>>, <<3>>, <<2, 3>>, <<1, 2, 3>>, <<6, 6, 5>>}

Variants == {"joinThenDrain", "drainWhileJoining"}

\* A goroutine that the go statement has not started yet.
UnitIdle == [pc |-> "unstarted", p |-> 0, f |-> FindIdle]

\* Variant of UnitPrime: every goroutine searches the prime of the last pass.
UnitPrimeOfLastPass(ps, k) == ps[Len(ps)]

\* go func(p int) {...}(prime): the goroutine of the k-th pass gets the
\* prime of that pass as its argument p.
UnitPrime(ps, k) == ps[k]

\* Variant of ChanCapacity: room for one result less than there are primes.
ChanCapacityOneLess(ps) == Len(ps) - 1

\* make(chan Result, len(primes))
ChanCapacity(ps) == Len(ps)

\* Result{Prime: p, Expression: expr, Found: found}
Result(p, f) == [Prime |-> p, Expression |-> f.expr, Found |-> f.found]

\* The rest of a pass of the subset loop once the permutations are built:
\* the loops over perm and opsComb, up to the return or the next pass.
RECURSIVE FindRunPass(_, _)
FindRunPass(f, p) ==
    IF f.pc \in {"subsets", "done"} THEN f
    ELSE FindRunPass(IF f.pc = "perms" THEN FindPermStep(f)
                     ELSE FindEvalStep(f, p), p)

\* One pass of the subset loop of a search, or its exit.
FindPass(f, ds, p) == FindRunPass(FindSubsetStep(f, ds), p)

\* The passes of the subset loop from the locals f on, up to the return.
RECURSIVE FindRun(_, _, _)
FindRun(f, ds, p) ==
    IF f.pc = "done" THEN f ELSE FindRun(FindPass(f, ds, p), ds, p)

\* The whole call findCombinationToPrime(dice, prime): the locals at the
\* return, expr and found among them.
findCombinationToPrime(ds, p) == FindRun(FindEnter, ds, p)

\* Variant of RangeBody: the loop that joins first leaves the range on a
\* result not found without clearing the flag.
RangeBodyBreakOnly(v, m, result) ==
    IF v = "joinThenDrain"
    THEN IF ~result.Found
         THEN [m EXCEPT !.pc = "done",
                        !.received = Append(m.received, result)]
         ELSE [m EXCEPT !.expressions = Append(m.expressions, result),
                        !.received = Append(m.received, result)]
    ELSE IF result.Found
         THEN [m EXCEPT !.received = Append(m.received, result)]
         ELSE [m EXCEPT !.success = FALSE,
                        !.received = Append(m.received, result)]

\* Goroutine u with the locals f of its search after a pass: the send comes
\* next once the search has returned.
UnitAfterPass(u, f) ==
    [u EXCEPT !.f = f, !.pc = IF f.pc = "done" THEN "send" ELSE "search"]

\* Variant of RangeBody: the flag is the outcome of the result read last.
RangeBodyLastWins(v, m, result) ==
    IF v = "joinThenDrain"
    THEN IF ~result.Found
         THEN [m EXCEPT !.success = FALSE, !.pc = "done",
                        !.received = Append(m.received, result)]
         ELSE [m EXCEPT !.success = TRUE,
                        !.expressions = Append(m.expressions, result),
                        !.received = Append(m.received, result)]
    ELSE [m EXCEPT !.success = result.Found,
                   !.received = Append(m.received, result)]

\* The body of for result := range ..., for the result just received:
\* the first loop breaks on a result not found and appends the others to
\* expressions; the second loop clears success and goes on.
RangeBody(v, m, result) ==
    IF v = "joinThenDrain"
    THEN IF ~result.Found
         THEN [m EXCEPT !.success = FALSE, !.pc = "done",
                        !.received = Append(m.received, result)]
         ELSE [m EXCEPT !.expressions = Append(m.expressions, result),
                        !.received = Append(m.received, result)]
    ELSE IF result.Found
         THEN [m EXCEPT !.received = Append(m.received, result)]
         ELSE [m EXCEPT !.success = FALSE,
                        !.received = Append(m.received, result)]

DispatchInit ==
    /\ variant \in Variants
    /\ \E level \in DispatchLevels : primes = getPrimeConstants(level)
    /\ dice \in Rolls
    /\ units = [k \in 1..Len(primes) |-> UnitIdle]
    /\ chan = <<>>
    /\ closed = FALSE
    /\ wg = 0
    /\ main = MainIdle
    /\ closer = "none"
    /\ prime = 0
    /\ fs = FindIdle
    /\ EvalAtRest
    /\ PermAtRest
    /\ CombAtRest
    /\ SpellAtRest

\* Variant of SendReady: the channel has no buffer, and a send goes through
\* when the range is waiting for it.
SendReadyUnbuffered == closed \/ main.pc = "range"

\* A send goes through when the buffer has room (and panics, without
\* blocking, on a closed channel).
SendReady == closed \/ Len(chan) < ChanCapacity(primes)

\* Variant of WaitReturns: the wait is over while one goroutine is left.
WaitReturnsOneEarly == wg <= 1

\* wg.Wait() returns when the counter is zero.
WaitReturns == wg = 0

\* A receive of the range goes through when a result is buffered or the
\* channel is closed.
ReceiveReady == chan # <<>> \/ closed

\* Goroutine k is neither blocked nor finished.
UnitReady(k) ==
    \/ units[k].pc \in {"search", "done"}
    \/ units[k].pc = "send" /\ SendReady

\* The dispatching loop is neither blocked nor finished.
MainReady ==
    \/ main.pc \in {"spawn", "close"}
    \/ main.pc = "wait" /\ WaitReturns
    \/ main.pc = "range" /\ ReceiveReady

\* The closing goroutine is neither blocked nor finished.
CloserReady ==
    \/ closer = "close"
    \/ closer = "wait" /\ WaitReturns

\* for _, prime := range primes { wg.Add(1); go func(p int) {...}(prime) }:
\* one pass, and after the last pass the statement that follows the loop.
MainSpawn ==
    /\ main.pc = "spawn" /\ main.k < Len(primes)
    /\ wg' = wg + 1
    /\ units' = [units EXCEPT ![main.k + 1] =
                    [pc |-> "search", p |-> UnitPrime(primes, main.k + 1),
                     f |-> FindEnter]]
    /\ main' = [main EXCEPT !.k = main.k + 1]
    /\ UNCHANGED <<spellVars, variant, primes, chan, closed, closer, evalVars, findVars,
                   permVars, combVars>>

\* The loop over the primes is over: wg.Wait() comes next in the first
\* loop, go func() { wg.Wait(); close(results) }() in the second.
MainSpawned ==
    /\ main.pc = "spawn" /\ ~(main.k < Len(primes))
    /\ IF variant = "joinThenDrain"
       THEN /\ main' = [main EXCEPT !.pc = "wait"]
            /\ closer' = closer
       ELSE /\ main' = [main EXCEPT !.pc = "range"]
            /\ closer' = "wait"
    /\ UNCHANGED <<spellVars, variant, primes, units, chan, closed, wg, evalVars,
                   findVars, permVars, combVars>>

\* wg.Wait()
MainWait ==
    /\ main.pc = "wait" /\ WaitReturns
    /\ main' = [main EXCEPT !.pc = "close"]
    /\ UNCHANGED <<spellVars, variant, primes, units, chan, closed, wg, closer, evalVars,
                   findVars, permVars, combVars>>

\* close(resultChan); closing a closed channel panics.
MainClose ==
    /\ main.pc = "close"
    /\ IF closed
       THEN main' = [main EXCEPT !.pc = "panic"] /\ closed' = closed
       ELSE main' = [main EXCEPT !.pc = "range"] /\ closed' = TRUE
    /\ UNCHANGED <<spellVars, variant, primes, units, chan, wg, closer, evalVars,
                   findVars, permVars, combVars>>

\* The range receives the oldest buffered result and runs the loop body.
MainReceive ==
    /\ main.pc = "range" /\ ReceiveReady /\ chan # <<>>
    /\ chan' = Tail(chan)
    /\ main' = RangeBody(variant, main, Head(chan))
    /\ UNCHANGED <<spellVars, variant, primes, units, closed, wg, closer, evalVars,
                   findVars, permVars, combVars>>

\* The range ends when the channel is closed and empty.
MainRangeEnd ==
    /\ main.pc = "range" /\ ReceiveReady /\ chan = <<>>
    /\ main' = [main EXCEPT !.pc = "done"]
    /\ UNCHANGED <<spellVars, variant, primes, units, chan, closed, wg, closer, evalVars,
                   findVars, permVars, combVars>>

\* wg.Wait() of the closing goroutine.
CloserWait ==
    /\ closer = "wait" /\ WaitReturns
    /\ closer' = "close"
    /\ UNCHANGED <<spellVars, variant, primes, units, chan, closed, wg, main, evalVars,
                   findVars, permVars, combVars>>

\* close(results) of the closing goroutine.
CloserClose ==
    /\ closer = "close"
    /\ IF closed
       THEN closer' = "panic" /\ closed' = closed
       ELSE closer' = "exited" /\ closed' = TRUE
    /\ UNCHANGED <<spellVars, variant, primes, units, chan, wg, main, evalVars,
                   findVars, permVars, combVars>>

\* findCombinationToPrime(dice, p) in goroutine k: one pass of its subset
\* loop, or the return.  The dice are the shared slice.
UnitSearch(k) ==
    /\ units[k].pc = "search"
    /\ units' = [units EXCEPT ![k] =
                    UnitAfterPass(@, FindPass(@.f, dice, @.p))]
    /\ dice' = DiceAfterSubsetStep(units[k].f, dice)
    /\ UNCHANGED <<spellVars, variant, primes, chan, closed, wg, main, closer, prime, fs,
                   evalVars, permVars, combVars>>

\* resultChan <- Result{...}: blocks while the buffer is full, panics on a
\* closed channel.
UnitSend(k) ==
    /\ units[k].pc = "send"
    /\ SendReady
    /\ IF closed
       THEN units' = [units EXCEPT ![k].pc = "panic"] /\ chan' = chan
       ELSE /\ units' = [units EXCEPT ![k].pc = "done"]
            /\ chan' = Append(chan, Result(units[k].p, units[k].f))
    /\ UNCHANGED <<spellVars, variant, primes, closed, wg, main, closer, evalVars,
                   findVars, permVars, combVars>>

\* defer wg.Done(), run when the goroutine returns; a negative counter
\* panics.
UnitDone(k) ==
    /\ units[k].pc = "done"
    /\ wg' = wg - 1
    /\ units' = [units EXCEPT ![k].pc = IF wg - 1 < 0 THEN "panic" ELSE "exited"]
    /\ UNCHANGED <<spellVars, variant, primes, chan, closed, main, closer, evalVars,
                   findVars, permVars, combVars>>

UnitNext ==
    \E k \in 1..Len(units) : UnitSearch(k) \/ UnitSend(k) \/ UnitDone(k)

DispatchNext ==
    \/ MainSpawn \/ MainSpawned \/ MainWait \/ MainClose
    \/ MainReceive \/ MainRangeEnd
    \/ CloserWait \/ CloserClose
    \/ UnitNext

DispatchSpec == DispatchInit /\ [][DispatchNext]_vars

----------------------------------------------------------------------------

(* The dispatcher under the scheduling of the Go run time: a goroutine that *)
(* is not blocked is run in the end.                                        *)

\* The steps of the dispatching loop, of the closing goroutine and of
\* goroutine k.
MainNext ==
    \/ MainSpawn \/ MainSpawned \/ MainWait \/ MainClose
    \/ MainReceive \/ MainRangeEnd

CloserNext == CloserWait \/ CloserClose

\* The goroutines of a dispatch, one per prime of a level.
UnitIds == 1..Len(primeConstants[1])

\* Goroutine k moves on in its search.  While it searches, a pass of its
\* subset loop is the one step that changes units[k], and a pass is always
\* possible.
SearchMoves(k) == units[k].pc = "search" /\ units'[k] # units[k]

\* Weak fairness of the search of goroutine k, written out: the search is
\* not stopped for ever while it can make a pass.
SearchFairness(k) ==
    \/ []<>(units[k].pc # "search")
    \/ []<><<SearchMoves(k)>>_vars

DispatchFairness ==
    /\ WF_vars(MainNext)
    /\ WF_vars(CloserNext)
    /\ \A k \in UnitIds : WF_vars(UnitSend(k)) /\ WF_vars(UnitDone(k))
    /\ \A k \in UnitIds : SearchFairness(k)

DispatchFairSpec == DispatchInit /\ [][DispatchNext]_vars /\ DispatchFairness

----------------------------------------------------------------------------

(* The pass of main over one spell: the level after the metamagic feats,    *)
(* the skip of a level above the maximum, the effects of the feats on the   *)
(* copy of the spell, and the lookup of the primes of the level.  A feat     *)
(* name is text, a sequence of one-character strings.                       *)

\* const maxSpellLevel
maxSpellLevel == 9

UpperCase ==
    <<"A", "B", "C", "D", "E", "F", "G", "H", "I", "J", "K", "L", "M",
      "N", "O", "P", "Q", "R", "S", "T", "U", "V", "W", "X", "Y", "Z">>

LowerCase ==
    <<"a", "b", "c", "d", "e", "f", "g", "h", "i", "j", "k", "l", "m",
      "n", "o", "p", "q", "r", "s", "t", "u", "v", "w", "x", "y", "z">>

\* strings.ToLower on one character
ToLowerChar(c) ==
    IF \E i \in 1..Len(UpperCase) : UpperCase[i] = c
    THEN LowerCase[CHOOSE i \in 1..Len(UpperCase) : UpperCase[i] = c]
    ELSE c

\* strings.ToLower(metamagic)
ToLower(s) == [i \in 1..Len(s) |-> ToLowerChar(s[i])]

\* The keys of the map MetamagicEffects
KeyExtend == <<"e", "x", "t", "e", "n", "d">>

KeyEmpower == <<"e", "m", "p", "o", "w", "e", "r">>

KeyReach == <<"r", "e", "a", "c", "h">>

KeyIntensified == <<"i", "n", "t", "e", "n", "s", "i", "f", "i", "e", "d">>

KeyWayang ==
    <<"w", "a", "y", "a", "n", "g", "_", "s", "p", "e", "l", "l", "_",
      "h", "u", "n", "t", "e", "r">>

\* "extend": Apply
ExtendApply(s) ==
    IF s.Duration.Value > 0
    THEN [s EXCEPT !.Duration.Value = s.Duration.Value * 2]
    ELSE s

\* "empower": Apply
EmpowerApply(s) == s

\* "reach": Apply
ReachApply(s) ==
    CASE s.Range = "touch"  -> [s EXCEPT !.Range = "close"]
      [] s.Range = "close"  -> [s EXCEPT !.Range = "medium"]
      [] s.Range = "medium" -> [s EXCEPT !.Range = "long"]
      [] OTHER              -> s

\* Variant of IntensifiedApply: the maximum is not tested.
IntensifiedApplyAnyMax(s) ==
    IF s.DamageRoll.PerLevel \/ s.Name = "Fireball"
    THEN [s EXCEPT !.DamageRoll.MaxDice = s.DamageRoll.MaxDice + 5]
    ELSE s

\* "intensified": Apply
IntensifiedApply(s) ==
    IF \/ s.DamageRoll.PerLevel /\ s.DamageRoll.MaxDice > 0
       \/ s.Name = "Fireball" /\ s.DamageRoll.MaxDice > 0
    THEN [s EXCEPT !.DamageRoll.MaxDice = s.DamageRoll.MaxDice + 5]
    ELSE s

\* "wayang_spell_hunter": Apply
WayangApply(s) == s

\* var MetamagicEffects: LevelIncrease of each key; Apply is EffectApply
MetamagicEffects ==
    [key \in {KeyExtend, KeyEmpower, KeyReach, KeyIntensified, KeyWayang} |->
        [LevelIncrease |->
            CASE key = KeyExtend      -> 1
              [] key = KeyEmpower     -> 2
              [] key = KeyReach       -> 1
              [] key = KeyIntensified -> 1
              [] key = KeyWayang      -> -1]]

\* effect.Apply(spell) of the effect under a key
EffectApply(key, s) ==
    CASE key = KeyExtend      -> ExtendApply(s)
      [] key = KeyEmpower     -> EmpowerApply(s)
      [] key = KeyReach       -> ReachApply(s)
      [] key = KeyIntensified -> IntensifiedApply(s)
      [] key = KeyWayang      -> WayangApply(s)

\* The loop of calculateSpellLevel from the feat at index i-1 on.
RECURSIVE LevelLoop(_, _, _)
LevelLoop(level, feats, i) ==
    IF i > Len(feats) THEN level
    ELSE LET key == ToLower(feats[i])
         IN  LevelLoop(IF key \in DOMAIN MetamagicEffects
                       THEN level + MetamagicEffects[key].LevelIncrease
                       ELSE level,
                       feats, i + 1)

\* The loop of calculateSpellLevel looking the name up as it is written.
RECURSIVE LevelLoopExactCase(_, _, _)
LevelLoopExactCase(level, feats, i) ==
    IF i > Len(feats) THEN level
    ELSE LET key == feats[i]
         IN  LevelLoopExactCase(IF key \in DOMAIN MetamagicEffects
                                THEN level + MetamagicEffects[key].LevelIncrease
                                ELSE level,
                                feats, i + 1)

\* Variant of calculateSpellLevel: no strings.ToLower.
CalculateSpellLevelExactCase(s) ==
    LevelLoopExactCase(s.BaseLevel, s.MetamagicFeats, 1)

\* func calculateSpellLevel(spell Spell) int
calculateSpellLevel(s) == LevelLoop(s.BaseLevel, s.MetamagicFeats, 1)

\* The loop of applyMetamagicEffects from the feat at index i-1 on.
RECURSIVE ApplyLoop(_, _, _)
ApplyLoop(s, feats, i) ==
    IF i > Len(feats) THEN s
    ELSE LET key == ToLower(feats[i])
         IN  ApplyLoop(IF key \in DOMAIN MetamagicEffects
                       THEN EffectApply(key, s)
                       ELSE s,
                       feats, i + 1)

\* func applyMetamagicEffects(spell *Spell): the spell it leaves
applyMetamagicEffects(s) == ApplyLoop(s, s.MetamagicFeats, 1)

\* Largest base level of a spell read from the file.
MaxBaseLevel == 9

\* Longest list of metamagic feats of a spell.
MaxFeats == 2

\* The spells of the passes: base levels from 0 (what mustAtoi makes of text
\* that is no number), ranges on and off the touch-to-long scale, durations
\* below and above zero, lists of feats known, unknown and capitalised, and
\* these names and damage rolls <<Name, PerLevel, MaxDice>>: no maximum,
\* a maximum on a roll per level, and a maximum on a roll that is not per
\* level under the name Fireball and under another name.
BaseLevels == 0..MaxBaseLevel

Ranges == {"touch", "medium", "personal"}

DamageCases ==
    {<<"Shield", FALSE, 0>>, <<"Fireball", FALSE, 0>>,
     <<"Shocking Grasp", TRUE, 5>>, <<"Fireball", FALSE, 5>>,
     <<"Scorching Ray", FALSE, 5>>}

Durations ==
    {[Value |-> v, Unit |-> "minutes", IsLevel |-> TRUE] : v \in {-1, 3}}

CapitalReach == <<"R", "e", "a", "c", "h">>

UnknownFeat == <<"p", "e", "r", "s", "i", "s", "t", "e", "n", "t">>

FeatNames ==
    {KeyExtend, KeyEmpower, KeyReach, KeyIntensified, KeyWayang,
     CapitalReach, UnknownFeat}

Spells ==
    {[Name |-> dc[1], BaseLevel |-> b, School |-> "Evocation", Range |-> r,
      DamageRoll |-> [NumDice |-> 1, DiceType |-> 6, Modifier |-> 0,
                      PerLevel |-> dc[2], MaxDice |-> dc[3],
                      Projectiles |-> 0],
      Duration |-> du, MetamagicFeats |-> fl] :
        dc \in DamageCases, b \in BaseLevels, r \in Ranges,
        du \in Durations, fl \in SeqsUpTo(FeatNames, MaxFeats)}

SpellInit ==
    /\ spell \in Spells
    /\ spellCopy = NoSpell
    /\ spellLevel = 0
    /\ levelPrimes = <<>>
    /\ mpc = "copy"
    /\ EvalAtRest
    /\ FindAtRest
    /\ PermAtRest
    /\ CombAtRest
    /\ DispatchAtRest

\* spellCopy := spell
MainCopy ==
    /\ mpc = "copy"
    /\ spellCopy' = spell
    /\ mpc' = "level"
    /\ UNCHANGED <<spell, spellLevel, levelPrimes, evalVars, findVars,
                   permVars, combVars, dispVars>>

\* spellLevel := calculateSpellLevel(spellCopy), and the continue of a level
\* above maxSpellLevel
MainLevel ==
    /\ mpc = "level"
    /\ spellLevel' = calculateSpellLevel(spellCopy)
    /\ mpc' = IF spellLevel' > maxSpellLevel THEN "skipped" ELSE "effects"
    /\ UNCHANGED <<spell, spellCopy, levelPrimes, evalVars, findVars,
                   permVars, combVars, dispVars>>

\* applyMetamagicEffects(&spellCopy)
MainEffects ==
    /\ mpc = "effects"
    /\ spellCopy' = applyMetamagicEffects(spellCopy)
    /\ mpc' = "lookup"
    /\ UNCHANGED <<spell, spellLevel, levelPrimes, evalVars, findVars,
                   permVars, combVars, dispVars>>

\* primes := getPrimeConstants(spellLevel); the index level-1 outside the
\* table is a run-time panic
MainLookup ==
    /\ mpc = "lookup"
    /\ IF spellLevel - 1 \in 0..(Len(primeConstants) - 1)
       THEN /\ levelPrimes' = getPrimeConstants(spellLevel)
            /\ mpc' = "dispatch"
       ELSE /\ levelPrimes' = levelPrimes
            /\ mpc' = "panic"
    /\ UNCHANGED <<spell, spellCopy, spellLevel, evalVars, findVars,
                   permVars, combVars, dispVars>>

SpellNext == MainCopy \/ MainLevel \/ MainEffects \/ MainLookup

SpellSpec == SpellInit /\ [][SpellNext]_vars

----------------------------------------------------------------------------

(* Reference definitions the properties are stated with.  They are written *)
(* from the arithmetic and the grammar, not from the code.                 *)

\* The quotient of a by b (b # 0) truncated toward zero: a = q*b + r with
\* |r| < |b| and r zero or of the sign of a.
TruncQuot(a, b) ==
    CHOOSE q \in -Abs(a)..Abs(a) :
        LET r == a - q * b
        IN  Abs(r) < Abs(b) /\ (r = 0 \/ (r > 0) = (a > 0))

\* Strict left-to-right value of the first k operands of vs under os:
\* ((vs[1] os[1] vs[2]) os[2] vs[3]) ...; ok is FALSE once a divisor is 0.
RECURSIVE LeftFold(_, _, _)
LeftFold(vs, os, k) ==
    IF k = 1 THEN [ok |-> TRUE, val |-> vs[1]]
    ELSE LET a == LeftFold(vs, os, k - 1)
             o == os[k - 1]
             b == vs[k]
         IN  IF ~a.ok THEN a
             ELSE CASE o = "+" -> [ok |-> TRUE, val |-> a.val + b]
                    [] o = "-" -> [ok |-> TRUE, val |-> a.val - b]
                    [] o = "*" -> [ok |-> TRUE, val |-> a.val * b]
                    [] o = "/" -> IF b = 0 THEN [ok |-> FALSE, val |-> 0]
                                  ELSE [ok |-> TRUE, val |-> TruncQuot(a.val, b)]

\* Some step among the first k-1 divides by a zero operand.
ZeroDivisorBefore(vs, os, k) ==
    \E j \in 1..(k - 1) : j <= Len(os) /\ os[j] = "/" /\ vs[j + 1] = 0

\* A well-formed call: M >= 1 operands and M - 1 of the four operators.
WellFormed(vs, os) == Len(vs) >= 1 /\ Len(os) = Len(vs) - 1

Additive(o) == o \in {"+", "-"}
Multiplicative(o) == o \in {"*", "/"}

\* The text of the first k operands: the text of the first k-1, put in
\* parentheses exactly when the operator before it (or "+" for the first
\* pair) is additive and the operator appended is multiplicative.
RECURSIVE Rendering(_, _, _)
Rendering(vs, os, k) ==
    IF k = 1 THEN Itoa(vs[1])
    ELSE LET sofar == Rendering(vs, os, k - 1)
             prev  == IF k = 2 THEN "+" ELSE os[k - 2]
             cur   == os[k - 1]
             tail  == <<" ", cur, " ">> \o Itoa(vs[k])
         IN  IF Additive(prev) /\ Multiplicative(cur)
             THEN <<"(">> \o sofar \o <<")">> \o tail
             ELSE sofar \o tail

(* A parser of arithmetic text with the standard precedence:               *)
(*   expr   ::= term   { ("+" | "-") term }      left-associative          *)
(*   term   ::= factor { ("*" | "/") factor }    left-associative          *)
(*   factor ::= "(" expr ")" | ["-"] digit+                                *)
(* Blanks separate tokens; "/" truncates; a zero divisor fails the parse.  *)

Digits == {"0", "1", "2", "3", "4", "5", "6", "7", "8", "9"}

DigitValue(c) == CHOOSE d \in 0..9 : DigitChar(d) = c

ParseFail == [ok |-> FALSE, val |-> 0, pos |-> 0]

RECURSIVE SkipBlanks(_, _)
SkipBlanks(t, pos) ==
    IF pos <= Len(t) /\ t[pos] = " " THEN SkipBlanks(t, pos + 1) ELSE pos

RECURSIVE ReadDigits(_, _, _)
ReadDigits(t, pos, acc) ==
    IF pos <= Len(t) /\ t[pos] \in Digits
    THEN ReadDigits(t, pos + 1, 10 * acc + DigitValue(t[pos]))
    ELSE [ok |-> TRUE, val |-> acc, pos |-> pos]

ParseNumber(t, pos) ==
    LET neg   == pos <= Len(t) /\ t[pos] = "-"
        start == IF neg THEN pos + 1 ELSE pos
    IN  IF start <= Len(t) /\ t[start] \in Digits
        THEN LET r == ReadDigits(t, start, 0)
             IN  [r EXCEPT !.val = IF neg THEN -r.val ELSE r.val]
        ELSE ParseFail

RECURSIVE ParseExpr(_, _)
RECURSIVE ParseExprRest(_, _, _)
RECURSIVE ParseTerm(_, _)
RECURSIVE ParseTermRest(_, _, _)
RECURSIVE ParseFactor(_, _)

ParseFactor(t, pos0) ==
    LET pos == SkipBlanks(t, pos0)
    IN  IF pos <= Len(t) /\ t[pos] = "("
        THEN LET e     == ParseExpr(t, pos + 1)
                 close == SkipBlanks(t, e.pos)
             IN  IF e.ok /\ close <= Len(t) /\ t[close] = ")"
                 THEN [e EXCEPT !.pos = close + 1]
                 ELSE ParseFail
        ELSE ParseNumber(t, pos)

ParseTermRest(t, pos0, acc) ==
    LET pos == SkipBlanks(t, pos0)
    IN  IF pos <= Len(t) /\ t[pos] \in {"*", "/"}
        THEN LET f == ParseFactor(t, pos + 1)
             IN  IF ~f.ok THEN ParseFail
                 ELSE IF t[pos] = "*" THEN ParseTermRest(t, f.pos, acc * f.val)
                 ELSE IF f.val = 0 THEN ParseFail
                 ELSE ParseTermRest(t, f.pos, TruncQuot(acc, f.val))
        ELSE [ok |-> TRUE, val |-> acc, pos |-> pos]

ParseTerm(t, pos) ==
    LET f == ParseFactor(t, pos)
    IN  IF f.ok THEN ParseTermRest(t, f.pos, f.val) ELSE ParseFail

ParseExprRest(t, pos0, acc) ==
    LET pos == SkipBlanks(t, pos0)
    IN  IF pos <= Len(t) /\ t[pos] \in {"+", "-"}
        THEN LET f == ParseTerm(t, pos + 1)
             IN  IF ~f.ok THEN ParseFail
                 ELSE IF t[pos] = "+" THEN ParseExprRest(t, f.pos, acc + f.val)
                 ELSE ParseExprRest(t, f.pos, acc - f.val)
        ELSE [ok |-> TRUE, val |-> acc, pos |-> pos]

ParseExpr(t, pos) ==
    LET f == ParseTerm(t, pos)
    IN  IF f.ok THEN ParseExprRest(t, f.pos, f.val) ELSE ParseFail

\* The value of the whole text, or ok = FALSE when it is not an expression.
Parse(t) ==
    LET e == ParseExpr(t, 1)
    IN  IF e.ok /\ SkipBlanks(t, e.pos) = Len(t) + 1
        THEN [ok |-> TRUE, val |-> e.val]
        ELSE [ok |-> FALSE, val |-> 0]

\* t is the canonical decimal text of x: an optional sign, digits with no
\* leading zero, denoting x.
IsDecimalOf(t, x) ==
    LET r == ParseNumber(t, 1)
        first == IF x < 0 THEN 2 ELSE 1
    IN  /\ r.ok /\ r.pos = Len(t) + 1 /\ r.val = x
        /\ (t[1] = "-") = (x < 0)
        /\ (t[first] = "0" => Len(t) = 1)

----------------------------------------------------------------------------
(* Properties of evalExpression, checked under EvalSpec *)

\* No step of the call divides by a zero operand.
NoZeroDivisor == ~ZeroDivisorBefore(nums, ops, Len(nums))

\* C5: for M >= 1 operands and M-1 operators with no zero divisor, the
\* accumulator after each pass, and the returned result, is the strict
\* left-to-right fold of the operands consumed so far, with no precedence:
\* [2,3,4] with [+,*] gives 20.
C5_LeftToRightFold ==
    WellFormed(nums, ops) /\ NoZeroDivisor =>
        /\ ev.pc # "panic"
        /\ ev.pc = "loop" =>
              ev.i <= Len(nums) /\ ev.result = LeftFold(nums, ops, ev.i).val
        /\ ev.pc = "return" =>
              ev.i = Len(nums) /\ ev.result = LeftFold(nums, ops, Len(nums)).val
        /\ (nums = <<2, 3, 4>> /\ ops = <<"+", "*">> /\ ev.pc = "return"
              => ev.result = 20)

C5_Witness ==
    /\ nums = <<2, 3, 4>> /\ ops = <<"+", "*">>
    /\ ev.pc = "return" /\ ev.result = 20

\* A pass that divides by a non-zero operand leaves the truncated quotient.
C6_DivisionStep ==
    (ev.pc = "loop" /\ ev'.pc = "loop" /\ ev'.i = ev.i + 1 /\ ops[ev.i] = "/")
        => ev'.result = TruncQuot(ev.result, nums[ev.i + 1])

\* (1 - 4) / 2 is -1, not the floor -2.
C6_Example ==
    nums = <<1, 4, 2>> /\ ops = <<"-", "/">> /\ ev.pc = "return" => ev.result = -1

\* C6: a pass whose operator is "/" and whose operand is not 0 leaves the
\* quotient truncated toward zero in the accumulator, negative accumulators
\* included: [1,4,2] with [-,/] returns -1.
C6_TruncatingDivision == [][C6_DivisionStep]_vars /\ []C6_Example

C6_Witness ==
    /\ nums = <<1, 4, 2>> /\ ops = <<"-", "/">>
    /\ ev.pc = "return" /\ ev.result = -1 /\ ev.i = 3

\* C7: when step k is the first with operator "/" and operand 0, the call
\* never gets past step k and returns (0, "") from it, whatever the
\* accumulator is and whatever follows step k.
C7_ZeroDivisorStops ==
    \A k \in 1..Len(ops) :
        (k < Len(nums) /\ ops[k] = "/" /\ nums[k + 1] = 0
           /\ ~ZeroDivisorBefore(nums, ops, k)) =>
            /\ ev.pc # "panic"
            /\ ev.pc = "loop" => ev.i <= k
            /\ ev.pc = "return" =>
                  ev = [pc |-> "return", i |-> k, result |-> 0, expression |-> <<>>]

C7_Witness ==
    /\ Len(nums) = 3 /\ Len(ops) = 2
    /\ nums[1] # 0 /\ nums[2] = 0 /\ nums[3] # 0 /\ ops[1] = "/"
    /\ ev = [pc |-> "return", i |-> 1, result |-> 0, expression |-> <<>>]

\* C8: the text after each pass is the text before it, put in parentheses
\* exactly when the previous operator ("+" for the first pair) is additive
\* and the appended operator multiplicative, followed by " op operand".  So
\* a first operator "*" or "/" puts the first operand in parentheses:
\* ([5,2],[*]) gives (10, "(5) * 2").
C8_Parenthesization ==
    /\ ev.pc = "loop" => ev.expression = Rendering(nums, ops, ev.i)
    /\ (ev.pc = "return" /\ Len(nums) >= 1 /\ NoZeroDivisor)
          => ev.expression = Rendering(nums, ops, Len(nums))
    /\ (ev.pc = "loop" /\ ev.i = 2 /\ Multiplicative(ops[1]))
          => ev.expression = <<"(">> \o Itoa(nums[1]) \o <<")", " ", ops[1], " ">>
                                \o Itoa(nums[2])
    /\ (nums = <<5, 2>> /\ ops = <<"*">> /\ ev.pc = "return")
          => ev.result = 10 /\ ev.expression = <<"(", "5", ")", " ", "*", " ", "2">>

C8_Witness ==
    /\ nums = <<5, 2>> /\ ops = <<"*">> /\ ev.pc = "return"
    /\ ev.expression = <<"(", "5", ")", " ", "*", " ", "2">>

\* C9: the text built so far, and the returned text of a call with no zero
\* divisor, parsed with the standard precedence, has the value of the
\* left-to-right accumulator.
C9_ReparseLaw ==
    /\ ev.pc = "loop" => Parse(ev.expression) = [ok |-> TRUE, val |-> ev.result]
    /\ (ev.pc = "return" /\ Len(nums) >= 1 /\ NoZeroDivisor)
          => Parse(ev.expression) = [ok |-> TRUE, val |-> ev.result]

C9_Witness ==
    /\ Len(nums) = 3 /\ ops = <<"-", "*">> /\ nums[3] < 0
    /\ ev.pc = "return"
    /\ ev.result # nums[1] - nums[2] * nums[3]
    /\ Parse(ev.expression) = [ok |-> TRUE, val |-> ev.result]

\* C10: a call with the single operand x returns (x, the decimal text of x)
\* without entering the loop, whatever ops holds.
C10_SingleOperand ==
    Len(nums) = 1 =>
        /\ ev.pc # "panic"
        /\ ev.pc = "return" =>
              /\ ev.result = nums[1]
              /\ IsDecimalOf(ev.expression, nums[1])
              /\ ev.i = 1

C10_Witness ==
    /\ Len(nums) = 1 /\ Len(ops) = 2 /\ nums[1] < 0
    /\ ev.pc = "return" /\ ev.result = nums[1]

----------------------------------------------------------------------------
(* Properties of findCombinationToPrime, checked under Spec *)

\* The orderings of the non-empty sets of die indices 1..n: the sequences of
\* pairwise different indices.
IndexOrderings(n) ==
    {s \in UNION {[1..k -> 1..n] : k \in 1..n} :
        \A a, b \in DOMAIN s : a # b => s[a] # s[b]}

\* The operator sequences of length k.
OperatorSequences(k) == [1..k -> {"+", "-", "*", "/"}]

\* The values of the dice at the indices s, in the order of s.
ValuesAt(ds, s) == [j \in DOMAIN s |-> ds[s[j]]]

\* Some ordering of some non-empty set of dice and some operator sequence
\* evaluate, left to right and with no zero divisor, to p.
Reaches(ds, p) ==
    \E s \in IndexOrderings(Len(ds)) :
        \E o \in OperatorSequences(Len(s) - 1) :
            LET v == LeftFold(ValuesAt(ds, s), o, Len(s))
            IN  v.ok /\ v.val = p

\* C1: the search returns found = true exactly when some candidate (a
\* non-empty set of die indices, an ordering of it, an operator sequence of
\* length operands - 1) evaluates left to right, with no zero divisor, to the
\* prime; when there is none it returns ("", false).
C1_FoundIffReachable ==
    fs.pc = "done" =>
        LET reach == Reaches(dice, prime)
        IN  /\ fs.found = reach
            /\ ~reach => fs.expr = <<>>

C1_Witness ==
    /\ fs.pc = "done" /\ ~fs.found /\ fs.expr = <<>>
    /\ Len(dice) = 3 /\ prime = 7 /\ dice[2] = 0 /\ dice[1] = 3

\* C2: a returned found = true comes with a non-empty expression that is the
\* rendering evalExpression gives for an ordering of a non-empty set of dice
\* and an operator sequence whose result is the prime, and the expression
\* re-evaluates (standard precedence) to the prime.
C2_FoundExpressionEvaluatesToPrime ==
    (fs.pc = "done" /\ fs.found) =>
        /\ fs.expr # <<>>
        /\ \E s \in IndexOrderings(Len(dice)) :
              \E o \in OperatorSequences(Len(s) - 1) :
                  LET r == evalExpression(ValuesAt(dice, s), o)
                  IN  r.pc = "return" /\ r.result = prime /\ r.expression = fs.expr
        /\ Parse(fs.expr) = [ok |-> TRUE, val |-> prime]

C2_Witness ==
    /\ fs.pc = "done" /\ fs.found /\ prime = 7 /\ Len(dice) = 3
    /\ Len(fs.expr) > 5
    /\ Parse(fs.expr) = [ok |-> TRUE, val |-> 7]

\* The candidates of the subset with index mask m, in generated order: its
\* permutations, and the operator sequences of each.
PermsOfMask(ds, m) == permutations(SubsetOf(ds, m))
OpsOfPerm(p) == combinations(Len(p) - 1, Operations)

\* Number of candidates of the masks 1..m.
RECURSIVE CandidatesUpTo(_, _)
CandidatesUpTo(ds, m) ==
    IF m = 0 THEN 0
    ELSE LET P == PermsOfMask(ds, m)
         IN  CandidatesUpTo(ds, m - 1)
               + (IF Len(P) = 0 THEN 0 ELSE Len(P) * Len(OpsOfPerm(P[1])))

\* No candidate before position (mask m, permutation a, operator sequence b),
\* all three counted from 1, evaluates to p.
NoMatchBefore(ds, p, m, a, b) ==
    /\ \A m1 \in 1..(m - 1) :
          LET P == PermsOfMask(ds, m1)
          IN  \A a1 \in 1..Len(P) :
                 LET C == OpsOfPerm(P[a1])
                 IN  \A b1 \in 1..Len(C) : evalExpression(P[a1], C[b1]).result # p
    /\ m < Pow(2, Len(ds)) =>
          LET P == PermsOfMask(ds, m)
          IN  /\ \A a1 \in 1..(a - 1) :
                    LET C == OpsOfPerm(P[a1])
                    IN  \A b1 \in 1..Len(C) : evalExpression(P[a1], C[b1]).result # p
              /\ LET C == OpsOfPerm(P[a])
                 IN  \A b1 \in 1..(b - 1) : evalExpression(P[a], C[b1]).result # p

\* C3: the search returns at the first candidate, in the order masks
\* 1..2^N-1, then permutations, then operator sequences, that evaluates to
\* the prime: it returns that candidate's expression, no earlier candidate
\* evaluates to the prime, and the number of evaluations made is the rank of
\* that candidate (none after it is evaluated); a search with no match has
\* evaluated every candidate once.
C3_FirstMatchInOrder ==
    fs.pc = "done" =>
        IF fs.found
        THEN /\ fs.i < Pow(2, Len(dice))
             /\ fs.perm = PermsOfMask(dice, fs.i)
             /\ fs.pIdx < Len(fs.perm)
             /\ fs.opsComb = OpsOfPerm(fs.perm[fs.pIdx + 1])
             /\ fs.oIdx < Len(fs.opsComb)
             /\ LET r == evalExpression(fs.perm[fs.pIdx + 1], fs.opsComb[fs.oIdx + 1])
                IN  r.result = prime /\ r.expression = fs.expr
             /\ NoMatchBefore(dice, prime, fs.i, fs.pIdx + 1, fs.oIdx + 1)
             /\ fs.nEval = CandidatesUpTo(dice, fs.i - 1)
                             + fs.pIdx * Len(fs.opsComb) + fs.oIdx + 1
        ELSE /\ fs.i = Pow(2, Len(dice))
             /\ NoMatchBefore(dice, prime, fs.i, 1, 1)
             /\ fs.nEval = CandidatesUpTo(dice, fs.i - 1)

C3_Witness ==
    /\ fs.pc = "done" /\ fs.found /\ Len(dice) = 3
    /\ fs.i = 7 /\ fs.pIdx > 0 /\ fs.oIdx > 0
    /\ fs.nEval < CandidatesUpTo(dice, 7)

\* The candidate about to be evaluated divides by a zero operand.
AtZeroDivisorCandidate ==
    /\ fs.pc = "ops" /\ fs.oIdx < Len(fs.opsComb)
    /\ LET p == fs.perm[fs.pIdx + 1]
       IN  ZeroDivisorBefore(p, fs.opsComb[fs.oIdx + 1], Len(p))

\* found = true never comes with the empty expression.
C4_NeverEmptyMatch == ~(fs.found /\ fs.expr = <<>>)

\* The step that evaluates a zero-divisor candidate goes on to the next
\* operator sequence of the same permutation.
C4_ContinuesAfterZeroDivisor ==
    AtZeroDivisorCandidate =>
        /\ fs'.pc = "ops" /\ ~fs'.found
        /\ fs'.i = fs.i /\ fs'.pIdx = fs.pIdx /\ fs'.oIdx = fs.oIdx + 1
        /\ fs'.nEval = fs.nEval + 1

\* C4: a candidate that divides by zero is never the reported match, for
\* die values and targets that include 0: the search never returns
\* found = true with the empty expression, and after such a candidate it
\* continues with the next candidate.
C4_ZeroDivisorCandidateDiscarded ==
    []C4_NeverEmptyMatch /\ [][C4_ContinuesAfterZeroDivisor]_vars

\* The search has just gone past a three-operand candidate that divides by
\* zero and is at the next operator sequence of the same permutation.
C4_Witness ==
    /\ fs.pc = "ops" /\ fs.oIdx > 0 /\ prime # 0 /\ Len(dice) = 3
    /\ LET p == fs.perm[fs.pIdx + 1]
       IN  /\ Len(p) = 3
           /\ ZeroDivisorBefore(p, fs.opsComb[fs.oIdx], Len(p))

----------------------------------------------------------------------------
(* Degenerate inputs *)

\* C11: evalExpression with an empty operand slice returns (0, "") whatever
\* the operators are, without entering the loop and without a panic; the
\* search over an empty dice slice returns ("", false) for every target,
\* the target 0 included, and evaluates no candidate.
C11_EmptyInputs ==
    /\ Len(nums) = 0 =>
          /\ ev.pc \in {"call", "return"}
          /\ ev.pc = "return" => (ev.result = 0 /\ ev.expression = <<>>)
    /\ Len(dice) = 0 =>
          /\ fs.pc \in {"idle", "subsets", "done"}
          /\ fs.nEval = 0
          /\ fs.pc = "done" => (~fs.found /\ fs.expr = <<>>)

C11_Witness ==
    /\ nums = <<>> /\ Len(ops) = 2 /\ ev.pc = "return"
    /\ dice = <<>> /\ prime = 0 /\ fs.pc = "done" /\ ~fs.found

----------------------------------------------------------------------------
(* The permutation generator *)

RECURSIVE Fact(_)
Fact(n) == IF n <= 1 THEN 1 ELSE n * Fact(n - 1)

\* The list permutations returns, as its caller reads it: the contents behind
\* each reference of res.
Returned == [k \in 1..Len(pres) |-> EntryVal(pres[k], parr)]

\* The different sequences among the entries of a list.
Entries(l) == {l[k] : k \in 1..Len(l)}

PairwiseDifferent(s) == \A a, b \in 1..Len(s) : a # b => s[a] # s[b]

\* The call stepped helper by helper returns the list, and leaves the array,
\* that the recursive definition of permutations gives.
StepwiseAsRecursive ==
    ppc = "done" =>
        /\ Returned = permutations(pin)
        /\ parr = Helper(pin, Len(pin)).arr

\* The statement "|subset|! entries, all distinct as ordered sequences, for
\* every subset of 1 to 8 values".
C12_AllEntriesDistinct ==
    (ppc = "done" /\ Len(pin) >= 1 /\ Len(pin) <= 8) =>
        /\ Len(Returned) = Fact(Len(pin))
        /\ Cardinality(Entries(Returned)) = Len(Returned)

\* C12: permutations(subset) returns exactly |subset|! entries for every
\* subset of at least one value; the entries are pairwise distinct as
\* ordered sequences exactly when the values of the subset are pairwise
\* different (a repeated value gives repeated entries).
C12_FactorialManyEntries ==
    (ppc = "done" /\ Len(pin) >= 1) =>
        /\ Len(Returned) = Fact(Len(pin))
        /\ (Cardinality(Entries(Returned)) = Len(Returned))
               <=> PairwiseDifferent(pin)

C12_Witness ==
    /\ ppc = "done"
    /\ Len(pin) = 3 /\ pin[1] = pin[3] /\ pin[1] # pin[2]
    /\ Len(Returned) = 6
    /\ Cardinality(Entries(Returned)) = 3
    /\ pstk = <<>> /\ pord = <<>>

\* The number of orderings of the positions of vs that give the same
\* arrangement of values: the product over the values x of (occurrences of
\* x in vs)!.
RECURSIVE FactProduct(_, _)
FactProduct(vs, xs) ==
    IF xs = {} THEN 1
    ELSE LET x == CHOOSE y \in xs : TRUE
         IN  Fact(Cardinality({j \in 1..Len(vs) : vs[j] = x}))
                 * FactProduct(vs, xs \ {x})

SameArrangements(vs) == FactProduct(vs, Entries(vs))

\* s is an ordering of the positions 1..m: each position exactly once.
IsOrdering(s, m) ==
    /\ DOMAIN s = 1..m
    /\ \A j \in 1..m : s[j] \in 1..m
    /\ PairwiseDifferent(s)

\* The returned list has one entry for each ordering of the input positions,
\* each ordering once, holding the input values in that ordering; an
\* arrangement of values appears as often as there are orderings giving it.
C13_Orderings ==
    (ppc = "done" /\ Len(pin) >= 1) =>
        LET m == Len(pin)
            r == Returned
            n == SameArrangements(pin)
        IN  /\ Len(r) = Fact(m)
            /\ Len(pord) = Len(r)
            /\ \A k \in 1..Len(r) :
                  /\ IsOrdering(pord[k], m)
                  /\ r[k] = [j \in 1..m |-> pin[pord[k][j]]]
            /\ Cardinality(Entries(pord)) = Fact(m)
            /\ Cardinality(Entries(r)) * n = Len(r)
            /\ n > 1 =>
                  \A v \in Entries(r) :
                      Cardinality({k \in 1..Len(r) : r[k] = v}) = n

\* A step of the generator leaves what is read through the entries already
\* in res as it is.
C13_EntriesKeepContents ==
    \A k \in 1..Len(pres) :
        /\ k <= Len(pres')
        /\ EntryVal(pres'[k], parr') = EntryVal(pres[k], parr)

\* C13: for every input of M >= 1 values, repeated values allowed, the
\* generator emits each of the M! orderings of the input positions exactly
\* once, so an arrangement of values appears as many times as there are
\* position orderings producing it, and every emitted entry is an
\* independent copy that later swaps do not change.
C13_EveryPositionOrderingOnce ==
    []C13_Orderings /\ [][C13_EntriesKeepContents]_vars

C13_Witness ==
    /\ ppc = "done"
    /\ Len(pin) = 3 /\ pin[1] = pin[2] /\ pin[2] # pin[3]
    /\ Len(pres) = 6
    /\ Returned[1] = pin
    /\ Returned[3] # pin
    /\ Cardinality({k \in 1..6 : Returned[k] = pin}) = 2

----------------------------------------------------------------------------
(* The operator assigner *)

\* C14: combinations(k, elements) returns exactly |elements|^k sequences for
\* every k >= 0 (4^k for the four operators), each of length exactly k,
\* pairwise distinct and covering every sequence over elements; for k = 0
\* it returns exactly one sequence, the empty one.
C14_AllSequencesOnce ==
    cpc = "done" =>
        /\ Len(cres) = Pow(Len(celems), cn)
        /\ celems = Operations => Len(cres) = Pow(4, cn)
        /\ \A k \in 1..Len(cres) : Len(cres[k]) = cn
        /\ Cardinality(Entries(cres)) = Len(cres)
        /\ \A s \in [1..cn -> Entries(celems)] :
              \E k \in 1..Len(cres) : \A j \in 1..cn : cres[k][j] = s[j]
        /\ cn = 0 => cres = << <<>> >>

C14_Witness ==
    /\ cpc = "done"
    /\ cn = 3 /\ celems = Operations
    /\ Len(cres) = 64
    /\ cres[1] = <<"+", "+", "+">> /\ cres[64] = <<"/", "/", "/">>

----------------------------------------------------------------------------
(* The subset enumerator *)

StrictlyIncreasing(s) == \A a, b \in 1..Len(s) : a < b => s[a] < s[b]

\* C15: for N dice the subset loop, run to exhaustion, builds exactly
\* 2^N - 1 subsets, one for each non-empty set of die indices and each
\* exactly once; every subset lists its values in original index order and
\* uses each die index at most once, and dice of equal values are distinct
\* items.
C15_EveryIndexSetOnce ==
    LET n == Len(dice)
    IN  /\ fs.pc \in {"perms", "ops"} =>
              /\ fs.picked # <<>>
              /\ \A k \in 1..Len(fs.picked) : fs.picked[k] \in 1..n
              /\ StrictlyIncreasing(fs.picked)
              /\ fs.subset = [k \in 1..Len(fs.picked) |-> dice[fs.picked[k]]]
              /\ fs.built[Len(fs.built)] = fs.picked
        /\ PairwiseDifferent(fs.built)
        /\ (fs.pc = "done" /\ ~fs.found) =>
              /\ Len(fs.built) = Pow(2, n) - 1
              /\ {Entries(fs.built[k]) : k \in 1..Len(fs.built)}
                     = (SUBSET (1..n)) \ {{}}

C15_Witness ==
    /\ fs.pc = "done" /\ ~fs.found
    /\ Len(dice) = 3 /\ dice[1] = dice[2]
    /\ Len(fs.built) = 7
    /\ fs.built[3] = <<1, 2>> /\ fs.built[5] = <<1, 3>>

----------------------------------------------------------------------------
(* The concurrent dispatcher *)

\* The results sent so far, in the order of the sends: those the range has
\* received, then those still buffered.
Sent == main.received \o chan

PrimesOf(rs) == [k \in 1..Len(rs) |-> rs[k].Prime]

\* rs holds exactly one result for each target prime.
OnePerPrime(rs) ==
    /\ Len(rs) = Len(primes)
    /\ Entries(PrimesOf(rs)) = Entries(primes)

\* C16: under every interleaving and completion order of the goroutines,
\* the aggregate success flag is true if and only if the search of every
\* target prime returned found = true.
C16_SuccessIffAllFound ==
    main.pc = "done" =>
        (main.success <=>
            \A k \in 1..Len(primes) :
                units[k].f.pc = "done" /\ units[k].f.found)

C16_Witness ==
    /\ main.pc = "done" /\ ~main.success
    /\ variant = "drainWhileJoining"
    /\ Len(main.received) = 3
    /\ ~main.received[1].Found /\ main.received[3].Found

\* C17: the collected list of per-prime results is in ascending order of
\* the primes, whatever the order in which the searches complete.
C17_CollectedInPrimeOrder ==
    \A a, b \in 1..Len(main.expressions) :
        a < b => main.expressions[a].Prime < main.expressions[b].Prime

C19_SendNeverBlocks ==
    /\ Len(chan) <= Len(primes)
    /\ \A k \in 1..Len(units) :
          /\ units[k].pc = "send" => Len(chan) < Len(primes)
          /\ units[k].pc \in {"search", "send", "done"} => UnitReady(k)
          /\ units[k].pc # "panic"
    /\ main.pc # "panic" /\ closer # "panic"
    /\ main.pc # "done" =>
          \/ MainReady
          \/ CloserReady
          \/ \E k \in 1..Len(units) : UnitReady(k)

C19_Witness ==
    /\ variant = "joinThenDrain" /\ main.pc = "wait"
    /\ Len(chan) = Len(primes) /\ Len(primes) = 3
    /\ wg = 1

\* The dice and the primes of a dispatch keep their values in every step.
C20_SharedInputsKept ==
    /\ dice' = dice
    /\ primes' = primes

\* C20: the searches never modify their inputs: after any number of passes
\* of the goroutines, one after another or interleaved, the shared dice
\* have the same values in the same order, although permutations reorders
\* its argument in place (the subset passed to it has an array of its own).
C20_DiceNeverModified == [][C20_SharedInputsKept]_vars

C20_Witness ==
    /\ dice = <<6, 6, 5>>
    /\ \E k \in 1..Len(units) :
          /\ units[k].f.subset = <<6, 5>>
          /\ units[k].f.subsetAfter = <<5, 6>>
    /\ \E k \in 1..Len(units) : units[k].pc = "exited"

----------------------------------------------------------------------------
(* The order of the operator sequences *)

\* The place of x in the list es (es has no repeated element).
RankIn(es, x) == CHOOSE j \in 1..Len(es) : es[j] = x

\* s comes before t in the lexicographic order of sequences of equal length
\* over es, the first position most significant.
LexBefore(es, s, t) ==
    \E j \in 1..Len(s) :
        /\ \A h \in 1..(j - 1) : s[h] = t[h]
        /\ RankIn(es, s[j]) < RankIn(es, t[j])

\* C25: combinations(k, [+,-,*,/]) emits the operator sequences in
\* lexicographic order under the ordering + < - < * < / of the element list,
\* the first position most significant (for k = 2: ++, +-, +*, +/, -+, ...,
\* //); the same holds for every element list under its own ordering.
C25_LexicographicOrder ==
    cpc = "done" =>
        /\ \A a, b \in 1..Len(cres) :
              a < b => LexBefore(celems, cres[a], cres[b])
        /\ (cn = 2 /\ celems = Operations) =>
              /\ SubSeq(cres, 1, 5) =
                    << <<"+", "+">>, <<"+", "-">>, <<"+", "*">>,
                       <<"+", "/">>, <<"-", "+">> >>
              /\ cres[16] = <<"/", "/">>

C25_Witness ==
    /\ cpc = "done"
    /\ cn = 2 /\ celems = Operations
    /\ cres[2] = <<"+", "-">> /\ cres[5] = <<"-", "+">>
    /\ Len(cres) = 16

----------------------------------------------------------------------------
(* The shape of the calls the search makes *)

\* C26: in every call that findCombinationToPrime makes to evalExpression
\* the operand sequence has length >= 1 and the operator sequence has length
\* exactly (operand count - 1); so combinations is never called with a
\* negative length and evalExpression never indexes past the end of ops.
C26_CallShape ==
    /\ fs.pc \in {"perms", "ops"} =>
          \A k \in 1..Len(fs.perm) : Len(fs.perm[k]) >= 1
    /\ fs.pc = "ops" =>
          LET p == fs.perm[fs.pIdx + 1]
          IN  /\ Len(p) >= 1
              /\ Len(p) - 1 >= 0
              /\ \A k \in 1..Len(fs.opsComb) : Len(fs.opsComb[k]) = Len(p) - 1
              /\ fs.oIdx < Len(fs.opsComb) =>
                    evalExpression(p, fs.opsComb[fs.oIdx + 1]).pc = "return"

C26_Witness ==
    /\ fs.pc = "ops" /\ fs.oIdx < Len(fs.opsComb)
    /\ Len(fs.perm[fs.pIdx + 1]) = 3
    /\ Len(fs.opsComb[fs.oIdx + 1]) = 2
    /\ fs.nEval > 0

----------------------------------------------------------------------------
(* Channel and WaitGroup discipline *)

\* The goroutines that have been started and have not run Done yet.
Running == {k \in 1..Len(units) : units[k].pc \in {"search", "send", "done"}}

\* wg.Wait() has returned, in the dispatching loop or in the closing
\* goroutine.
WaitOver ==
    \/ variant = "joinThenDrain" /\ main.pc \in {"close", "range", "done"}
    \/ variant = "drainWhileJoining" /\ closer \in {"close", "exited"}

\* wg.Wait() has been called.
WaitCalled ==
    \/ variant = "joinThenDrain" /\ main.pc # "spawn"
    \/ variant = "drainWhileJoining" /\ closer # "none"

C28_Discipline ==
    /\ wg >= 0 /\ wg = Cardinality(Running)
    /\ \A k \in 1..Len(units) :
          /\ units[k].pc # "panic"
          /\ units[k].pc \in {"done", "exited"} =>
                \E j \in 1..Len(Sent) : Sent[j] = Result(units[k].p, units[k].f)
    /\ main.pc # "panic" /\ closer # "panic"
    /\ WaitCalled => main.k = Len(primes)
    /\ WaitOver => \A k \in 1..Len(units) : units[k].pc = "exited"
    /\ closed =>
          /\ WaitOver
          /\ \A k \in 1..Len(units) : units[k].pc = "exited"
          /\ Len(Sent) = Len(primes)
    /\ main.pc = "done" => closed

\* C28: in both dispatch loops the channel is closed exactly once and only
\* after every goroutine has sent its result (Done comes after the send,
\* every Add before the Wait): no goroutine sends on a closed channel, the
\* WaitGroup counter never goes negative, and Wait never returns while a
\* goroutine is still searching.
C28_ClosedOnceAfterAllSends ==
    []C28_Discipline /\ [][closed => closed']_vars

C28_Witness ==
    /\ closed /\ variant = "drainWhileJoining"
    /\ main.pc = "range" /\ Len(chan) = 2 /\ Len(main.received) = 1
    /\ closer = "exited" /\ wg = 0

----------------------------------------------------------------------------
(* The two dispatch loops compared *)

\* The aggregate that the outcomes of the searches of the primes ps over the
\* dice ds call for, whatever the loop and the schedule.
AllFound(ds, ps) ==
    \A k \in 1..Len(ps) : findCombinationToPrime(ds, ps[k]).found

\* C29: the two dispatch loops - joining first and leaving the range at the
\* first result not found, or ranging while a goroutine joins and closes and
\* reading every result - compute the same aggregate success flag for the
\* same per-prime outcomes under every interleaving: in either loop the flag
\* is the conjunction of the outcomes, which depend on the dice and the
\* primes only.
C29_SameAggregate ==
    main.pc = "done" => (main.success <=> AllFound(dice, primes))

C29_Witness ==
    /\ main.pc = "done" /\ variant = "joinThenDrain"
    /\ dice = <<6, 6, 5>> /\ primes = <<3, 5, 7>>
    /\ ~main.success
    /\ Len(main.received) = 1 /\ Len(chan) = 2
    /\ chan[1].Found /\ chan[2].Found

----------------------------------------------------------------------------
(* The pass of main over one spell *)

IsPrime(n) == n > 1 /\ \A d \in 2..(n - 1) : n % d # 0

\* C22: getPrimeConstants(level) returns, for every level 1..9, the level-th
\* row of the prime table, {3, 5, 7} for level 1, {43, 47, 53} for level 5
\* and {101, 103, 107} for level 9: three primes in strictly ascending
\* order, and every prime of level L+1 is greater than every prime of
\* level L.
C22_PrimeRows ==
    mpc = "dispatch" =>
        /\ spellLevel \in 1..9
        /\ levelPrimes = primeConstants[spellLevel]
        /\ spellLevel = 1 => levelPrimes = <<3, 5, 7>>
        /\ spellLevel = 5 => levelPrimes = <<43, 47, 53>>
        /\ spellLevel = 9 => levelPrimes = <<101, 103, 107>>
        /\ Len(levelPrimes) = 3
        /\ \A k \in 1..3 : IsPrime(levelPrimes[k])
        /\ StrictlyIncreasing(levelPrimes)
        /\ spellLevel < 9 =>
              \A a, b \in 1..3 :
                  getPrimeConstants(spellLevel + 1)[a] > levelPrimes[b]

C22_Witness ==
    /\ mpc = "dispatch"
    /\ spellLevel = 5
    /\ levelPrimes = <<43, 47, 53>>
    /\ spell.BaseLevel = 4

\* The letters c and d are the same up to case.
SameLetter(c, d) ==
    \/ c = d
    \/ \E i \in 1..Len(UpperCase) : {c, d} = {UpperCase[i], LowerCase[i]}

\* The names a and b are the same up to case.
SameName(a, b) ==
    /\ Len(a) = Len(b)
    /\ \A i \in 1..Len(a) : SameLetter(a[i], b[i])

\* The number of occurrences of the key in the list, up to case.
Occurrences(feats, key) ==
    Cardinality({i \in 1..Len(feats) : SameName(feats[i], key)})

\* The sum of LevelIncrease times the occurrences over a set of keys.
RECURSIVE IncreaseOver(_, _)
IncreaseOver(keys, feats) ==
    IF keys = {} THEN 0
    ELSE LET key == CHOOSE k \in keys : TRUE
         IN  MetamagicEffects[key].LevelIncrease * Occurrences(feats, key)
                 + IncreaseOver(keys \ {key}, feats)

\* C23: calculateSpellLevel(spell) is the spell's BaseLevel plus the sum of
\* LevelIncrease over every listed metamagic feat that is a key of
\* MetamagicEffects, matched without regard to case and counted once per
\* occurrence; an unknown feat name contributes nothing, and the spell is
\* not modified.
C23_LevelIsBasePlusIncreases ==
    mpc \notin {"copy", "level"} =>
        /\ spellLevel = spell.BaseLevel
                          + IncreaseOver(DOMAIN MetamagicEffects,
                                         spell.MetamagicFeats)
        /\ mpc \in {"skipped", "effects"} => spellCopy = spell

C23_Witness ==
    /\ mpc = "effects"
    /\ spell.BaseLevel = 3
    /\ spell.MetamagicFeats = <<CapitalReach, UnknownFeat>>
    /\ spellLevel = 4
    /\ spellCopy = spell

\* The range n steps along touch, close, medium, long.
RECURSIVE RangeAfter(_, _)
RangeAfter(r, n) ==
    IF n = 0 THEN r
    ELSE RangeAfter(CASE r = "touch"  -> "close"
                      [] r = "close"  -> "medium"
                      [] r = "medium" -> "long"
                      [] OTHER        -> r,
                    n - 1)

\* The spell after the effects of its feats, where scales tells whether
\* 'intensified' applies to its damage roll.
AfterEffects(s, scales) ==
    LET feats == s.MetamagicFeats
    IN  [s EXCEPT
           !.Range = RangeAfter(s.Range, Occurrences(feats, KeyReach)),
           !.Duration.Value =
               IF s.Duration.Value > 0
               THEN s.Duration.Value * Pow(2, Occurrences(feats, KeyExtend))
               ELSE s.Duration.Value,
           !.DamageRoll.MaxDice =
               IF scales /\ s.DamageRoll.MaxDice > 0
               THEN s.DamageRoll.MaxDice
                        + 5 * Occurrences(feats, KeyIntensified)
               ELSE s.DamageRoll.MaxDice]

\* The effects have been applied to the copy.
EffectsApplied == mpc \in {"lookup", "dispatch", "panic"}

\* C24, as claimed: applyMetamagicEffects applies the effect of each
\* recognised feat of the list: 'reach' moves Range one step along touch,
\* close, medium, long and leaves 'long' and any other range unchanged,
\* 'extend' doubles Duration.Value when it is positive, 'intensified' adds 5
\* to DamageRoll.MaxDice of a damage roll per level with MaxDice > 0, and
\* every other field of the spell is unchanged.
C24_EffectsPerLevelOnly ==
    EffectsApplied => spellCopy = AfterEffects(spell, spell.DamageRoll.PerLevel)

\* C24, amended: as claimed, but 'intensified' adds 5 to DamageRoll.MaxDice
\* when MaxDice > 0 and the damage roll is per level or the spell is named
\* Fireball.
C24_EffectsWithFireball ==
    EffectsApplied =>
        spellCopy = AfterEffects(spell, \/ spell.DamageRoll.PerLevel
                                        \/ spell.Name = "Fireball")

C24_Witness ==
    /\ mpc = "lookup"
    /\ spell.Name = "Fireball"
    /\ ~spell.DamageRoll.PerLevel
    /\ spell.DamageRoll.MaxDice = 5
    /\ spell.Range = "medium"
    /\ spell.MetamagicFeats = <<KeyIntensified, CapitalReach>>
    /\ spellCopy.DamageRoll.MaxDice = 10
    /\ spellCopy.Range = "long"

\* C30: for every spell that main processes, the level passed to
\* getPrimeConstants lies in 1..9, so that the lookup in the prime table is
\* never out of range: a spell whose level after the metamagic feats is
\* above 9 is skipped, and no base level and feats (the -1 of
\* wayang_spell_hunter and a base level read as 0 included) reach the
\* lookup with a level below 1.
C30_LookupLevelInRange ==
    /\ mpc = "lookup" => spellLevel \in 1..9
    /\ mpc # "panic"

----------------------------------------------------------------------------
(* Termination *)

\* Every search has returned and its goroutine has ended.
AllExited == \A k \in 1..Len(units) : units[k].pc = "exited"

\* The join has returned: wg.Wait() is behind the goroutine that called it.
Joined ==
    \/ variant = "joinThenDrain" /\ main.pc \in {"close", "range", "done"}
    \/ variant = "drainWhileJoining" /\ closer \in {"close", "exited"}

\* The range over the channel is over: success and expressions are final.
AggregateProduced == main.pc = "done"

\* C27: findCombinationToPrime terminates for every finite dice list and
\* every target, by the first success or by exhausting the subsets, the
\* permutations and the operator sequences; so, when the goroutines are
\* scheduled fairly, the join of the dispatcher returns in the end and an
\* aggregate outcome is produced in the end.
C27_EventuallyAggregate ==
    /\ <>AllExited
    /\ <>Joined
    /\ <>AggregateProduced

C27_Witness ==
    /\ AggregateProduced
    /\ AllExited
    /\ Joined
    /\ dice = <<2, 3>>
    /\ \E k \in 1..Len(units) : ~units[k].f.found /\ units[k].f.i = 4
    /\ \E k \in 1..Len(units) : units[k].f.found /\ units[k].f.i < 4

====
